---- MODULE Spec2Model ----
(***************************************************************************)
(* Model of the Unicorn Orator hardware detector                           *)
(* (src/hardware-detect/detect.py) and of the Kokoro NPU runtime           *)
(* (src/kokoro-tts/npu/npu_runtime.py).                                    *)
(*                                                                         *)
(* A Python str is a sequence of one-character strings, so that `in`,      *)
(* lower(), strip() and split() are computed as Python computes them.      *)
(* An optional value is None (the empty tuple) or Some(v) (a 1-tuple).     *)
(* A dict is a record or a function on its keys; {} is the function with   *)
(* the empty domain.                                                       *)
(***************************************************************************)
EXTENDS Integers, Sequences, FiniteSets, TLC

\* the detector, its host, the outcome of the last call, and the outcome of
\* the detector call before it
VARIABLES system_info, detected_hardware, env, ret, prev
\* the NPU runtime: the module flag, the host's device nodes, the process's
\* descriptor table, the SimplifiedNPURuntime objects, the NPURuntime object,
\* what has happened to each runtime so far, and what the last call did
VARIABLES CPU_ONLY_MODE, devnodes, fdtable, runtimes, npu, history, call

detector_vars == <<system_info, detected_hardware, env, prev>>
runtime_vars == <<CPU_ONLY_MODE, devnodes, fdtable, runtimes, npu, history, call>>
vars == <<system_info, detected_hardware, env, ret, prev, CPU_ONLY_MODE, devnodes, fdtable, runtimes, npu, history, call>>

(***************************************************************************)
(* Bounds                                                                  *)
(***************************************************************************)
\* most device rows nvidia-smi prints on a modelled host
MaxRows == 2
\* most render nodes under /dev/dri on a modelled host
MaxRender == 2
\* most descriptors the process may hold open (its RLIMIT_NOFILE)
MaxFds == 2
\* longest token sequence passed to run_inference
MaxTokens == 1

(***************************************************************************)
(* Python values                                                           *)
(***************************************************************************)
None == <<>>
Some(v) == <<v>>
EmptyDict == [k \in {} |-> None]

\* dict.get(key, {}) followed by .get("available"): falsy when either is missing
GetAvailable(d, key) == IF key \in DOMAIN d THEN d[key].available ELSE FALSE

UpperCase == <<"A", "B", "C", "D", "E", "F", "G", "H", "I", "J", "K", "L", "M", "N", "O", "P", "Q", "R", "S", "T", "U", "V", "W", "X", "Y", "Z">>
LowerCase == <<"a", "b", "c", "d", "e", "f", "g", "h", "i", "j", "k", "l", "m", "n", "o", "p", "q", "r", "s", "t", "u", "v", "w", "x", "y", "z">>
Whitespace == {" ", "\n", "\t", "\r"}
Digits == <<"0", "1", "2", "3", "4", "5", "6", "7", "8", "9">>

LowerChar(c) == IF c \in {UpperCase[i] : i \in 1..26} THEN LowerCase[CHOOSE i \in 1..26 : UpperCase[i] = c] ELSE c

\* str.lower()
Lower(s) == [i \in 1..Len(s) |-> LowerChar(s[i])]

\* str.find(sub) + 1: the 1-based index of the first occurrence of sub in s, 0 when there is none
\* sub occurs in s at index i
MatchAt(s, sub, i) == \A j \in 1..Len(sub) : s[i + j - 1] = sub[j]

RECURSIVE FindFrom(_, _, _)
FindFrom(s, sub, i) == IF i + Len(sub) - 1 > Len(s) THEN 0 ELSE IF MatchAt(s, sub, i) THEN i ELSE FindFrom(s, sub, i + 1)

Find(s, sub) == FindFrom(s, sub, 1)

\* sub in s
Contains(s, sub) == Find(s, sub) # 0

RECURSIVE LStrip(_)
LStrip(s) == IF s # <<>> /\ Head(s) \in Whitespace THEN LStrip(Tail(s)) ELSE s

RECURSIVE RStrip(_)
RStrip(s) == IF s # <<>> /\ s[Len(s)] \in Whitespace THEN RStrip(SubSeq(s, 1, Len(s) - 1)) ELSE s

\* str.strip()
Strip(s) == RStrip(LStrip(s))

\* str.split(sep) for a non-empty separator
RECURSIVE Split(_, _)
Split(s, sep) == LET i == Find(s, sep) IN IF i = 0 THEN <<s>> ELSE <<SubSeq(s, 1, i - 1)>> \o Split(SubSeq(s, i + Len(sep), Len(s)), sep)

\* str(n) for a non-negative int
RECURSIVE IntStr(_)
IntStr(n) == IF n < 10 THEN <<Digits[n + 1]>> ELSE IntStr(n \div 10) \o <<Digits[(n % 10) + 1]>>

(***************************************************************************)
(* String literals of the source and of the modelled hosts                 *)
(***************************************************************************)
s_unknown == <<"u", "n", "k", "n", "o", "w", "n">>
s_AVX2 == <<"A", "V", "X", "2">>
s_AVX512 == <<"A", "V", "X", "5", "1", "2">>
s_AMD == <<"A", "M", "D">>
s_Intel == <<"I", "n", "t", "e", "l">>
s_avx2 == <<"a", "v", "x", "2">>
s_avx512 == <<"a", "v", "x", "5", "1", "2">>
s_xdna == <<"x", "d", "n", "a">>
s_npu == <<"n", "p", "u">>
s_ryzen_ai_sw == <<"r", "y", "z", "e", "n", "-", "a", "i", "-", "s", "w">>
s_XDNA1 == <<"X", "D", "N", "A", "1">>
s_XDNA2 == <<"X", "D", "N", "A", "2">>
s_7840 == <<"7", "8", "4", "0">>
s_7940 == <<"7", "9", "4", "0">>
s_7640 == <<"7", "6", "4", "0">>
s_7540 == <<"7", "5", "4", "0">>
s_8840 == <<"8", "8", "4", "0">>
s_8940 == <<"8", "9", "4", "0">>
s_8640 == <<"8", "6", "4", "0">>
s_8540 == <<"8", "5", "4", "0">>
s_ai_3 == <<"a", "i", " ", "3">>
s_i915 == <<"i", "9", "1", "5">>
s_xe == <<"x", "e">>
s_0x8086 == <<"0", "x", "8", "0", "8", "6">>
s_0x1002 == <<"0", "x", "1", "0", "0", "2">>
s_amdgpu == <<"a", "m", "d", "g", "p", "u">>
s_780m == <<"7", "8", "0", "m">>
s_680m == <<"6", "8", "0", "m">>
s_vega == <<"v", "e", "g", "a">>
s_radeon == <<"r", "a", "d", "e", "o", "n">>
s_AMD_Radeon_Graphics_iGPU == <<"A", "M", "D", " ", "R", "a", "d", "e", "o", "n", " ", "G", "r", "a", "p", "h", "i", "c", "s", " ", "(", "i", "G", "P", "U", ")">>
s_cpu == <<"c", "p", "u">>
s_igpu == <<"i", "g", "p", "u">>
s_cuda == <<"c", "u", "d", "a">>
s_full == <<"f", "u", "l", "l">>
s_None == <<"N", "o", "n", "e">>
s_comma_space == <<",", " ">>
s_newline == <<"\n">>
s_Default_CPU_fallback == <<"D", "e", "f", "a", "u", "l", "t", " ", "C", "P", "U", " ", "f", "a", "l", "l", "b", "a", "c", "k">>
s_AMD_NPU_detected == <<"A", "M", "D", " ", "N", "P", "U", " ", "d", "e", "t", "e", "c", "t", "e", "d", " ", "(">>
s_TOPS == <<"T", "O", "P", "S">>
s_AMD_NPU_provides == <<"A", "M", "D", " ", "N", "P", "U", " ", "p", "r", "o", "v", "i", "d", "e", "s", " ", "e", "x", "c", "e", "l", "l", "e", "n", "t", " ", "T", "T", "S", " ", "a", "c", "c", "e", "l", "e", "r", "a", "t", "i", "o", "n">>
s_Intel_iGPU_provides == <<"I", "n", "t", "e", "l", " ", "i", "G", "P", "U", " ", "p", "r", "o", "v", "i", "d", "e", "s", " ", "g", "o", "o", "d", " ", "a", "c", "c", "e", "l", "e", "r", "a", "t", "i", "o", "n", " ", "v", "i", "a", " ", "O", "p", "e", "n", "V", "I", "N", "O">>
s_Intel_iGPU_optimized == <<"I", "n", "t", "e", "l", " ", "i", "G", "P", "U", " ", "o", "p", "t", "i", "m", "i", "z", "e", "d", " ", "w", "i", "t", "h", " ", "O", "p", "e", "n", "V", "I", "N", "O">>
s_NVIDIA_GPU == <<"N", "V", "I", "D", "I", "A", " ", "G", "P", "U", ":", " ">>
s_NVIDIA_GPU_provides == <<"N", "V", "I", "D", "I", "A", " ", "G", "P", "U", " ", "p", "r", "o", "v", "i", "d", "e", "s", " ", "f", "a", "s", "t", "e", "s", "t", " ", "i", "n", "f", "e", "r", "e", "n", "c", "e">>
s_AMD_iGPU_detected == <<"A", "M", "D", " ", "i", "G", "P", "U", " ", "d", "e", "t", "e", "c", "t", "e", "d", ",", " ", "u", "s", "i", "n", "g", " ", "o", "p", "t", "i", "m", "i", "z", "e", "d", " ", "C", "P", "U", " ", "b", "a", "c", "k", "e", "n", "d">>
s_AMD_iGPU == <<"A", "M", "D", " ", "i", "G", "P", "U">>
s_no_acceleration == <<"n", "o", " ", "a", "c", "c", "e", "l", "e", "r", "a", "t", "i", "o", "n", " ", "h", "a", "r", "d", "w", "a", "r", "e", " ", "d", "e", "t", "e", "c", "t", "e", "d">>
s_renderD128 == <<"/", "d", "e", "v", "/", "d", "r", "i", "/", "r", "e", "n", "d", "e", "r", "D", "1", "2", "8">>
s_renderD129 == <<"/", "d", "e", "v", "/", "d", "r", "i", "/", "r", "e", "n", "d", "e", "r", "D", "1", "2", "9">>
p_empty == <<>>
p_x86_64 == <<"x", "8", "6", "_", "6", "4">>
p_phoenix == <<"R", "y", "z", "e", "n", " ", "7", " ", "7", "8", "4", "0", "U", " ", "w", "/", " ", "R", "a", "d", "e", "o", "n", " ", "7", "8", "0", "M">>
p_hawk == <<"R", "y", "z", "e", "n", " ", "7", " ", "8", "8", "4", "0", "H", "S">>
p_strix == <<"R", "y", "z", "e", "n", " ", "A", "I", " ", "9", " ", "H", "X", " ", "3", "7", "0">>
f_cpuinfo_amd == <<"A", "u", "t", "h", "e", "n", "t", "i", "c", "A", "M", "D", "\n", "f", "p", "u", " ", "a", "v", "x", "2", "\n">>
f_cpuinfo_intel == <<"G", "e", "n", "u", "i", "n", "e", "I", "n", "t", "e", "l", "\n", "a", "v", "x", "2", " ", "a", "v", "x", "5", "1", "2", "f", "\n">>
f_cpuinfo_arm == <<"f", "p", " ", "a", "s", "i", "m", "d", "\n">>
s_ModelX == <<"M", "o", "d", "e", "l", "X">>
s_ModelY == <<"M", "o", "d", "e", "l", "Y">>
s_ModelZ == <<"M", "o", "d", "e", "l", "Z">>
s_8192_MiB == <<"8", "1", "9", "2", " ", "M", "i", "B">>
s_4096_MiB == <<"4", "0", "9", "6", " ", "M", "i", "B">>
s_2048_MiB == <<"2", "0", "4", "8", " ", "M", "i", "B">>
o_row_nocomma == <<"M", "o", "d", "e", "l", "X", " ", "8", "1", "9", "2", " ", "M", "i", "B", "\n">>
o_cuda_version == <<"1", "2", ".", "4", "\n">>
o_vainfo_i915 == <<"I", "n", "t", "e", "l", " ", "i", "9", "6", "5", " ", "d", "r", "i", "v", "e", "r", " ", "(", "i", "9", "1", "5", ")", "\n">>
o_vainfo_xe == <<"I", "n", "t", "e", "l", " ", "i", "H", "D", " ", "d", "r", "i", "v", "e", "r", "\n">>
o_vainfo_amd == <<"M", "e", "s", "a", " ", "G", "a", "l", "l", "i", "u", "m", " ", "d", "r", "i", "v", "e", "r", "\n">>
f_vendor_intel == <<"0", "x", "8", "0", "8", "6", "\n">>
f_vendor_amd == <<"0", "x", "1", "0", "0", "2", "\n">>
f_vendor_nvidia == <<"0", "x", "1", "0", "d", "e", "\n">>
f_product_780m == <<"R", "a", "d", "e", "o", "n", " ", "7", "8", "0", "M", "\n">>
s_renderD130 == <<"/", "d", "e", "v", "/", "d", "r", "i", "/", "r", "e", "n", "d", "e", "r", "D", "1", "3", "0">>
s_renderD131 == <<"/", "d", "e", "v", "/", "d", "r", "i", "/", "r", "e", "n", "d", "e", "r", "D", "1", "3", "1">>
s_TOPS_close == <<" ", "T", "O", "P", "S", ")">>
s_Linux == <<"L", "i", "n", "u", "x">>
s_report_title == <<" ", "U", "n", "i", "c", "o", "r", "n", " ", "O", "r", "a", "t", "o", "r", " ", "H", "a", "r", "d", "w", "a", "r", "e", " ", "D", "e", "t", "e", "c", "t", "i", "o", "n", " ", "R", "e", "p", "o", "r", "t">>
s_System_Information == <<"S", "y", "s", "t", "e", "m", " ", "I", "n", "f", "o", "r", "m", "a", "t", "i", "o", "n", ":">>
s_OS == <<" ", " ", "O", "S", ":", " ">>
s_Architecture == <<" ", " ", "A", "r", "c", "h", "i", "t", "e", "c", "t", "u", "r", "e", ":", " ">>
s_Processor == <<" ", " ", "P", "r", "o", "c", "e", "s", "s", "o", "r", ":", " ">>
s_Detected_Hardware == <<"D", "e", "t", "e", "c", "t", "e", "d", " ", "H", "a", "r", "d", "w", "a", "r", "e", ":">>
s_CPU == <<" ", "C", "P", "U", ":", " ">>
s_cores == <<" ", "c", "o", "r", "e", "s", ")">>
s_Features == <<" ", " ", " ", " ", " ", "F", "e", "a", "t", "u", "r", "e", "s", ":", " ">>
s_NVIDIA_GPU_line == <<" ", "N", "V", "I", "D", "I", "A", " ", "G", "P", "U", ":", " ">>
s_devices == <<" ", "d", "e", "v", "i", "c", "e", "(", "s", ")">>
s_dash == <<" ", " ", " ", " ", " ", "-", " ">>
s_NVIDIA_not_detected == <<" ", "N", "V", "I", "D", "I", "A", " ", "G", "P", "U", ":", " ", "N", "o", "t", " ", "d", "e", "t", "e", "c", "t", "e", "d">>
s_AMD_NPU_line == <<" ", "A", "M", "D", " ", "N", "P", "U", ":", " ">>
s_AMD_NPU_not_detected == <<" ", "A", "M", "D", " ", "N", "P", "U", ":", " ", "N", "o", "t", " ", "d", "e", "t", "e", "c", "t", "e", "d">>
s_Intel_iGPU_line == <<" ", "I", "n", "t", "e", "l", " ", "i", "G", "P", "U", ":", " ">>
s_Intel_iGPU_not_detected == <<" ", "I", "n", "t", "e", "l", " ", "i", "G", "P", "U", ":", " ", "N", "o", "t", " ", "d", "e", "t", "e", "c", "t", "e", "d">>
s_AMD_iGPU_line == <<" ", "A", "M", "D", " ", "i", "G", "P", "U", ":", " ">>
s_AMD_iGPU_not_detected == <<" ", "A", "M", "D", " ", "i", "G", "P", "U", ":", " ", "N", "o", "t", " ", "d", "e", "t", "e", "c", "t", "e", "d">>
s_Recommended_Configuration == <<"R", "e", "c", "o", "m", "m", "e", "n", "d", "e", "d", " ", "C", "o", "n", "f", "i", "g", "u", "r", "a", "t", "i", "o", "n", ":">>
s_WhisperX == <<" ", " ", "W", "h", "i", "s", "p", "e", "r", "X", ":", " ">>
s_Kokoro == <<" ", " ", "K", "o", "k", "o", "r", "o", ":", " ">>
s_open == <<" ", "(">>
s_close == <<")">>
s_indent == <<" ", " ">>

\* f"{value}" of an optional int / an optional str
FormatOptInt(o) == IF o = None THEN s_None ELSE IntStr(o[1])
FormatOptStr(o) == IF o = None THEN s_None ELSE o[1]

(***************************************************************************)
(* The host: what each probe of the detector meets.  A subprocess.run call *)
(* either completes with a return code and a stdout or raises; a file is   *)
(* missing, unreadable or has a text; a path probe finds the path absent,  *)
(* present, or fails with an OSError.                                      *)
(***************************************************************************)
Completed(rc, out) == [exc |-> "none", returncode |-> rc, stdout |-> out]
Raises(e) == [exc |-> e, returncode |-> 0, stdout |-> <<>>]

FileMissing == [kind |-> "missing", text |-> <<>>]
FileUnreadable == [kind |-> "unreadable", text |-> <<>>]
FileWith(t) == [kind |-> "file", text |-> t]

\* os.cpu_count() of the modelled hosts
CpuCount == 8

Processors == {p_empty, p_x86_64, p_phoenix, p_hawk, p_strix}

CpuInfoFiles == {FileMissing, FileUnreadable, FileWith(f_cpuinfo_amd), FileWith(f_cpuinfo_intel), FileWith(f_cpuinfo_arm)}

\* the GPUs of the modelled hosts and the row nvidia-smi prints for each: "name, memory.total"
GpuNames == <<s_ModelX, s_ModelY, s_ModelZ>>
GpuMemory == <<s_8192_MiB, s_4096_MiB, s_2048_MiB>>
GpuRow(i) == GpuNames[i] \o s_comma_space \o GpuMemory[i] \o s_newline

RECURSIVE RowsOutput(_)
RowsOutput(n) == IF n = 0 THEN <<>> ELSE RowsOutput(n - 1) \o GpuRow(n)

\* stdouts of a successful device query: no row, 1..MaxRows well-formed rows, a row without ", ", a blank line after a row
QueryStdouts == {RowsOutput(n) : n \in 0..MaxRows} \cup {o_row_nocomma, GpuRow(1) \o s_newline \o GpuRow(2)}

NvidiaQueries == {Raises("FileNotFoundError"), Raises("TimeoutExpired"), Raises("PermissionError"), Completed(1, <<>>)} \cup {Completed(0, out) : out \in QueryStdouts}

NvidiaVersions == {Completed(0, o_cuda_version), Completed(1, <<>>), Raises("TimeoutExpired"), Raises("FileNotFoundError"), Raises("PermissionError")}

PathProbes == {"absent", "present", "oserror"}

RenderNodes == <<s_renderD128, s_renderD129, s_renderD130, s_renderD131>>

VainfoRuns == {Completed(0, o_vainfo_i915), Completed(0, o_vainfo_xe), Completed(0, o_vainfo_amd), Completed(1, <<>>), Raises("TimeoutExpired"), Raises("FileNotFoundError"), Raises("PermissionError")}

VendorFiles == {FileMissing, FileUnreadable, FileWith(f_vendor_intel), FileWith(f_vendor_amd), FileWith(f_vendor_nvidia)}

ProductFiles == {FileMissing, FileUnreadable, FileWith(f_product_780m)}

FrequencyRuns == {Completed(0, <<>>), Completed(1, <<>>), Raises("TimeoutExpired"), Raises("FileNotFoundError"), Raises("PermissionError")}

\* device.name[-1] of a render node: the card index the source derives from it
CardOf(device) == device[Len(device)]

NvidiaHost(q, v) == [query |-> q, version |-> v]
NpuHost(a, b, d) == [dev_xdna |-> a, dev_npu_nodes |-> b, opt_ryzen_ai_sw |-> d]
DriHost(probe, nodes, va, vf, pf, fr) == [dev_dri |-> probe, render_devices |-> nodes, vainfo |-> va, vendor |-> vf, product |-> pf, intel_gpu_frequency |-> fr]

NvidiaAbsent == NvidiaHost(Raises("FileNotFoundError"), Raises("FileNotFoundError"))
NvidiaOneGpu == NvidiaHost(Completed(0, RowsOutput(1)), Completed(0, o_cuda_version))
NpuAbsent == NpuHost("absent", "absent", "absent")
NpuDriverNode == NpuHost("present", "absent", "absent")

\* /dev/dri missing, unreadable or without render nodes
DriWithout(probe, fr) == DriHost(probe, <<>>, [d \in {} |-> Raises("FileNotFoundError")], [c \in {} |-> FileMissing], [c \in {} |-> FileMissing], fr)

\* n render nodes of which node k answers vainfo with va and has vendor file vf and product file pf;
\* the other nodes are of another vendor
DriWithNode(n, k, va, vf, pf, fr) == DriHost("present", SubSeq(RenderNodes, 1, n), [d \in {RenderNodes[i] : i \in 1..n} |-> IF d = RenderNodes[k] THEN va ELSE Completed(1, <<>>)], [c \in {CardOf(RenderNodes[i]) : i \in 1..n} |-> IF c = CardOf(RenderNodes[k]) THEN vf ELSE FileWith(f_vendor_nvidia)], [c \in {CardOf(RenderNodes[i]) : i \in 1..n} |-> IF c = CardOf(RenderNodes[k]) THEN pf ELSE FileMissing], fr)

DriAbsent == DriWithout("absent", Raises("FileNotFoundError"))
DriIntel == DriWithNode(1, 1, Completed(0, o_vainfo_i915), FileWith(f_vendor_intel), FileMissing, Raises("FileNotFoundError"))
DriAmd == DriWithNode(1, 1, Completed(0, o_vainfo_amd), FileWith(f_vendor_amd), FileWith(f_product_780m), Raises("FileNotFoundError"))
\* an Intel node followed by an AMD node
DriIntelAmd == DriHost("present", SubSeq(RenderNodes, 1, 2), [d \in {RenderNodes[1], RenderNodes[2]} |-> IF d = RenderNodes[1] THEN Completed(0, o_vainfo_i915) ELSE Completed(0, o_vainfo_amd)], [c \in {CardOf(RenderNodes[1]), CardOf(RenderNodes[2])} |-> IF c = CardOf(RenderNodes[1]) THEN FileWith(f_vendor_intel) ELSE FileWith(f_vendor_amd)], [c \in {CardOf(RenderNodes[1]), CardOf(RenderNodes[2])} |-> FileMissing], Raises("FileNotFoundError"))

NvidiaHosts == {NvidiaHost(q, Raises("FileNotFoundError")) : q \in NvidiaQueries} \cup {NvidiaHost(Completed(0, RowsOutput(n)), v) : n \in 1..MaxRows, v \in NvidiaVersions}

NpuHosts == {NpuHost(a, b, d) : a \in PathProbes, b \in PathProbes, d \in PathProbes}

\* the product file is read only for a node whose vendor file names AMD
NodeFiles == {<<vf, FileMissing>> : vf \in VendorFiles} \cup {<<FileWith(f_vendor_amd), pf>> : pf \in ProductFiles}

DriHosts == {DriWithout(probe, fr) : probe \in PathProbes, fr \in FrequencyRuns} \cup UNION {{DriWithNode(n, k, va, nf[1], nf[2], fr) : k \in 1..n, va \in VainfoRuns, nf \in NodeFiles, fr \in FrequencyRuns} : n \in 1..MaxRender}

Host(p, ci, nv, np, dr) == [processor |-> p, cpuinfo |-> ci, nvidia |-> nv, npu |-> np, dri |-> dr]

\* every combination of present and absent classes
HostsCombined == {Host(p, ci, nv, np, dr) : p \in Processors, ci \in {FileMissing, FileWith(f_cpuinfo_amd)}, nv \in {NvidiaAbsent, NvidiaOneGpu}, np \in {NpuAbsent, NpuDriverNode}, dr \in {DriAbsent, DriIntel, DriAmd, DriIntelAmd}}
\* every outcome of the probes of one class, the other classes absent
HostsCpu == {Host(p, ci, NvidiaAbsent, NpuAbsent, DriAbsent) : p \in Processors, ci \in CpuInfoFiles}
HostsNvidia == {Host(p, FileWith(f_cpuinfo_amd), nv, NpuAbsent, DriAbsent) : p \in Processors, nv \in NvidiaHosts}
HostsNpu == {Host(p, FileWith(f_cpuinfo_amd), NvidiaAbsent, np, DriAbsent) : p \in Processors, np \in NpuHosts}
HostsDri == {Host(p, ci, NvidiaAbsent, NpuAbsent, dr) : p \in {p_x86_64, p_phoenix}, ci \in {FileWith(f_cpuinfo_intel), FileWith(f_cpuinfo_amd)}, dr \in DriHosts}

Hosts == HostsCombined \cup HostsCpu \cup HostsNvidia \cup HostsNpu \cup HostsDri

(***************************************************************************)
(* HardwareDetector.  Each detect_* method is a function of the host and   *)
(* of the detector's fields; it returns a capability record or raises.     *)
(***************************************************************************)
Return(v) == [status |-> "return", value |-> v, exc |-> "none"]
Raise(e) == [status |-> "raise", value |-> None, exc |-> e]

\* a guard that lets a timeout through
CaughtBySubprocessGuard_ToolMissingOnly == {"FileNotFoundError"}

\* lines 110, 199, 223: the exceptions the guard around a subprocess.run call catches
CaughtBySubprocessGuard == {"TimeoutExpired", "FileNotFoundError"}

detect_cpu(e) ==
  LET cpu_info == [available |-> TRUE, vendor |-> s_unknown, model |-> e.processor, cores |-> CpuCount, features |-> <<>>]
      cpuinfo == e.cpuinfo.text
      cpuinfo_lower == Lower(cpuinfo)
      features == (IF Contains(cpuinfo_lower, s_avx2) THEN <<s_AVX2>> ELSE <<>>) \o (IF Contains(cpuinfo_lower, s_avx512) THEN <<s_AVX512>> ELSE <<>>)
      vendor == IF Contains(cpuinfo, s_AMD) THEN s_AMD ELSE IF Contains(cpuinfo, s_Intel) THEN s_Intel ELSE s_unknown
  IN  IF e.cpuinfo.kind = "file" THEN Return([cpu_info EXCEPT !.features = features, !.vendor = vendor]) ELSE Return(cpu_info)

\* the parse with blank lines skipped instead of unpacked
ParseDeviceRows_SkipBlank(stdout) ==
  LET lines == SelectSeq(Split(Strip(stdout), s_newline), LAMBDA line : line # <<>>)
      fields == [i \in 1..Len(lines) |-> Split(lines[i], s_comma_space)]
  IN  IF \A i \in 1..Len(lines) : Len(fields[i]) = 2
      THEN Return([i \in 1..Len(lines) |-> [name |-> fields[i][1], memory |-> fields[i][2]]])
      ELSE Raise("ValueError")

\* the parse taking an empty stdout as an empty device list
ParseDeviceRows_EmptyIsNoDevice(stdout) ==
  LET lines == Split(Strip(stdout), s_newline)
      fields == [i \in 1..Len(lines) |-> Split(lines[i], s_comma_space)]
  IN  IF Strip(stdout) = <<>> THEN Return(<<>>)
      ELSE IF \A i \in 1..Len(lines) : Len(fields[i]) = 2
      THEN Return([i \in 1..Len(lines) |-> [name |-> fields[i][1], memory |-> fields[i][2]]])
      ELSE Raise("ValueError")

\* lines 92-97: one device per line of the stripped stdout; a line that does not split in two raises ValueError
ParseDeviceRows(stdout) ==
  LET lines == Split(Strip(stdout), s_newline)
      fields == [i \in 1..Len(lines) |-> Split(lines[i], s_comma_space)]
  IN  IF \A i \in 1..Len(lines) : Len(fields[i]) = 2
      THEN Return([i \in 1..Len(lines) |-> [name |-> fields[i][1], memory |-> fields[i][2]]])
      ELSE Raise("ValueError")

\* a failed version query discarding the devices the first query listed
detect_nvidia_gpu_VersionRequired(e) ==
  LET gpu_info == [available |-> FALSE, devices |-> <<>>, cuda_version |-> None, driver_version |-> None]
      q == e.nvidia.query
      v == e.nvidia.version
      rows == ParseDeviceRows(q.stdout)
      found == [gpu_info EXCEPT !.available = TRUE, !.devices = rows.value]
  IN  IF q.exc \in CaughtBySubprocessGuard THEN Return(gpu_info)
      ELSE IF q.exc # "none" THEN Raise(q.exc)
      ELSE IF q.returncode # 0 THEN Return(gpu_info)
      ELSE IF rows.status = "raise" THEN Raise(rows.exc)
      ELSE IF v.exc \in CaughtBySubprocessGuard THEN Return(gpu_info)
      ELSE IF v.exc # "none" THEN Raise(v.exc)
      ELSE IF v.returncode = 0 THEN Return([found EXCEPT !.cuda_version = Some(Strip(v.stdout))])
      ELSE Return(found)

\* lines 74-113: the device query, then the version query; only timeout and tool-missing are caught
detect_nvidia_gpu(e) ==
  LET gpu_info == [available |-> FALSE, devices |-> <<>>, cuda_version |-> None, driver_version |-> None]
      q == e.nvidia.query
      v == e.nvidia.version
      rows == ParseDeviceRows(q.stdout)
      found == [gpu_info EXCEPT !.available = TRUE, !.devices = rows.value]
  IN  IF q.exc \in CaughtBySubprocessGuard THEN Return(gpu_info)
      ELSE IF q.exc # "none" THEN Raise(q.exc)
      ELSE IF q.returncode # 0 THEN Return(gpu_info)
      ELSE IF rows.status = "raise" THEN Raise(rows.exc)
      ELSE IF v.exc \in CaughtBySubprocessGuard THEN Return(found)
      ELSE IF v.exc # "none" THEN Raise(v.exc)
      ELSE IF v.returncode = 0 THEN Return([found EXCEPT !.cuda_version = Some(Strip(v.stdout))])
      ELSE Return(found)

\* the table without the Hawk Point row
KnownModel_NoHawkPoint(self_processor) ==
  LET processor == Lower(self_processor)
  IN  IF self_processor = <<>> THEN None
      ELSE IF \E model \in {s_7840, s_7940, s_7640, s_7540} : Contains(processor, model) THEN Some([type |-> s_XDNA1, tops |-> 16])
      ELSE IF Contains(processor, s_ai_3) THEN Some([type |-> s_XDNA2, tops |-> 50])
      ELSE None

\* lines 139-155: the known-model table, first match wins
KnownModel(self_processor) ==
  LET processor == Lower(self_processor)
  IN  IF self_processor = <<>> THEN None
      ELSE IF \E model \in {s_7840, s_7940, s_7640, s_7540} : Contains(processor, model) THEN Some([type |-> s_XDNA1, tops |-> 16])
      ELSE IF \E model \in {s_8840, s_8940, s_8640, s_8540} : Contains(processor, model) THEN Some([type |-> s_XDNA1, tops |-> 16])
      ELSE IF Contains(processor, s_ai_3) THEN Some([type |-> s_XDNA2, tops |-> 50])
      ELSE None

\* lines 127-130: method 1, the XDNA driver node
XdnaDriverMethod(npu_info, e) == IF e.npu.dev_xdna = "present" THEN [npu_info EXCEPT !.available = TRUE, !.driver = Some(s_xdna)] ELSE npu_info

\* method 2 recording the driver without marking the NPU available
NpuNodesMethod_DriverOnly(npu_info, e) == IF e.npu.dev_npu_nodes = "present" THEN [npu_info EXCEPT !.driver = Some(s_npu)] ELSE npu_info

\* lines 133-136: method 2, the /dev/npu* nodes
NpuNodesMethod(npu_info, e) == IF e.npu.dev_npu_nodes = "present" THEN [npu_info EXCEPT !.available = TRUE, !.driver = Some(s_npu)] ELSE npu_info

\* lines 139-155: method 3, the processor model
KnownModelMethod(npu_info, self_system_info) ==
  LET known == KnownModel(self_system_info.processor)
  IN  IF known # None THEN [npu_info EXCEPT !.available = TRUE, !.type = Some(known[1].type), !.tops = Some(known[1].tops)] ELSE npu_info

\* method 4 counting the software directory only beside an earlier signal
RyzenAiSwMethod_NeedsDriver(npu_info, e) == IF e.npu.opt_ryzen_ai_sw = "present" /\ npu_info.available THEN [npu_info EXCEPT !.driver = Some(s_ryzen_ai_sw)] ELSE npu_info

\* lines 158-161: method 4, the Ryzen AI software directory
RyzenAiSwMethod(npu_info, e) == IF e.npu.opt_ryzen_ai_sw = "present" THEN [npu_info EXCEPT !.available = TRUE, !.driver = Some(s_ryzen_ai_sw)] ELSE npu_info

\* an OSError of a path probe leaves the try block; the record keeps what the earlier methods set
detect_amd_npu(e, self_system_info) ==
  LET npu_info == [available |-> FALSE, type |-> None, driver |-> None, tops |-> None]
  IN  IF e.npu.dev_xdna = "oserror" THEN Return(npu_info)
      ELSE IF e.npu.dev_npu_nodes = "oserror" THEN Return(XdnaDriverMethod(npu_info, e))
      ELSE IF e.npu.opt_ryzen_ai_sw = "oserror" THEN Return(KnownModelMethod(NpuNodesMethod(XdnaDriverMethod(npu_info, e), e), self_system_info))
      ELSE Return(RyzenAiSwMethod(KnownModelMethod(NpuNodesMethod(XdnaDriverMethod(npu_info, e), e), self_system_info), e))

\* lines 186-213: the loop over the render nodes; raised is TRUE when an exception leaves the loop
RECURSIVE IntelScan(_, _, _)
IntelScan(e, devices, igpu_info) ==
  IF devices = <<>> THEN [info |-> igpu_info, raised |-> FALSE]
  ELSE LET device == Head(devices)
           result == e.dri.vainfo[device]
           vendor_file == e.dri.vendor[CardOf(device)]
       IN  IF result.exc = "none" /\ Contains(result.stdout, s_Intel)
           THEN [info |-> [igpu_info EXCEPT !.available = TRUE, !.device = Some(device), !.driver = Some(IF Contains(result.stdout, s_i915) THEN s_i915 ELSE s_xe)], raised |-> FALSE]
           ELSE IF result.exc \notin (CaughtBySubprocessGuard \cup {"none"}) THEN [info |-> igpu_info, raised |-> TRUE]
           ELSE IF vendor_file.kind = "file" /\ Strip(vendor_file.text) = s_0x8086
           THEN [info |-> [igpu_info EXCEPT !.available = TRUE, !.device = Some(device)], raised |-> FALSE]
           ELSE IntelScan(e, Tail(devices), igpu_info)

detect_intel_igpu(e) ==
  LET igpu_info == [available |-> FALSE, device |-> None, driver |-> None, compute_units |-> None]
      render_devices == IF e.dri.dev_dri = "present" THEN e.dri.render_devices ELSE <<>>
      scan == IntelScan(e, render_devices, igpu_info)
      tool == e.dri.intel_gpu_frequency
  IN  IF e.dri.dev_dri = "oserror" THEN Return(igpu_info)
      ELSE IF scan.raised THEN Return(scan.info)
      ELSE IF tool.exc = "none" /\ tool.returncode = 0 THEN Return([scan.info EXCEPT !.available = TRUE])
      ELSE Return(scan.info)

\* lines 249-268: the loop over the render nodes; an exception inside one iteration is swallowed
RECURSIVE AmdScan(_, _, _)
AmdScan(e, devices, igpu_info) ==
  IF devices = <<>> THEN igpu_info
  ELSE LET device == Head(devices)
           vendor_file == e.dri.vendor[CardOf(device)]
           product_file == e.dri.product[CardOf(device)]
           found == [igpu_info EXCEPT !.available = TRUE, !.device = Some(device), !.driver = Some(s_amdgpu)]
       IN  IF vendor_file.kind = "unreadable" THEN AmdScan(e, Tail(devices), igpu_info)
           ELSE IF vendor_file.kind = "file" /\ Strip(vendor_file.text) = s_0x1002
           THEN IF product_file.kind = "unreadable" THEN AmdScan(e, Tail(devices), found)
                ELSE IF product_file.kind = "file" THEN [found EXCEPT !.model = Some(Strip(product_file.text))]
                ELSE found
           ELSE AmdScan(e, Tail(devices), igpu_info)

detect_amd_igpu(e, self_system_info, self_detected_hardware) ==
  LET igpu_info == [available |-> FALSE, device |-> None, driver |-> None, model |-> None]
      render_devices == IF e.dri.dev_dri = "present" THEN e.dri.render_devices ELSE <<>>
      scan == AmdScan(e, render_devices, igpu_info)
      cpu_vendor == IF "cpu" \in DOMAIN self_detected_hardware THEN Some(self_detected_hardware["cpu"].vendor) ELSE None
      processor == Lower(self_system_info.processor)
  IN  IF e.dri.dev_dri = "oserror" THEN Return(igpu_info)
      ELSE IF scan.available /\ cpu_vendor = Some(s_AMD) /\ \E term \in {s_780m, s_680m, s_vega, s_radeon} : Contains(processor, term)
      THEN Return([scan EXCEPT !.model = Some(s_AMD_Radeon_Graphics_iGPU)])
      ELSE Return(scan)

\* the chain with the NVIDIA test moved to the front
SelectedBranch_CudaFirst(hw) ==
  IF GetAvailable(hw, "nvidia_gpu") THEN "nvidia_gpu"
  ELSE IF GetAvailable(hw, "amd_npu") THEN "amd_npu"
  ELSE IF GetAvailable(hw, "intel_igpu") THEN "intel_igpu"
  ELSE IF GetAvailable(hw, "amd_igpu") THEN "amd_igpu"
  ELSE "default"

\* the chain with the NVIDIA and Intel tests exchanged
SelectedBranch_CudaBeforeIgpu(hw) ==
  IF GetAvailable(hw, "amd_npu") THEN "amd_npu"
  ELSE IF GetAvailable(hw, "nvidia_gpu") THEN "nvidia_gpu"
  ELSE IF GetAvailable(hw, "intel_igpu") THEN "intel_igpu"
  ELSE IF GetAvailable(hw, "amd_igpu") THEN "amd_igpu"
  ELSE "default"

\* lines 301, 311, 321, 331: the if/elif chain, first match wins
SelectedBranch(hw) ==
  IF GetAvailable(hw, "amd_npu") THEN "amd_npu"
  ELSE IF GetAvailable(hw, "intel_igpu") THEN "intel_igpu"
  ELSE IF GetAvailable(hw, "nvidia_gpu") THEN "nvidia_gpu"
  ELSE IF GetAvailable(hw, "amd_igpu") THEN "amd_igpu"
  ELSE "default"

\* line 305
NpuReason(amd_npu) == s_AMD_NPU_detected \o FormatOptInt(amd_npu.tops) \o s_TOPS_close

\* the reason naming the last device instead of the first
CudaReason_LastDevice(nvidia_gpu) == s_NVIDIA_GPU \o nvidia_gpu.devices[Len(nvidia_gpu.devices)].name

\* line 325
CudaReason(nvidia_gpu) == s_NVIDIA_GPU \o nvidia_gpu.devices[1].name

\* the AMD iGPU branch leaving the default reason in place
AmdIgpuReason_Silent == s_Default_CPU_fallback

\* lines 334-335
AmdIgpuReason == s_AMD_iGPU_detected

\* the defaults with kokoro left without a fallback reason
DefaultRecommendations_NoKokoroReason == [whisperx |-> [backend |-> s_cpu, variant |-> s_full, reason |-> s_Default_CPU_fallback], kokoro |-> [backend |-> s_cpu, reason |-> <<>>]]

\* lines 288-298
DefaultRecommendations == [whisperx |-> [backend |-> s_cpu, variant |-> s_full, reason |-> s_Default_CPU_fallback], kokoro |-> [backend |-> s_cpu, reason |-> s_Default_CPU_fallback]]

recommend_configuration(self_detected_hardware) ==
  LET branch == SelectedBranch(self_detected_hardware)
  IN  IF branch = "amd_npu"
      THEN Return([whisperx |-> [backend |-> s_npu, variant |-> s_full, reason |-> NpuReason(self_detected_hardware["amd_npu"])], kokoro |-> [backend |-> s_npu, reason |-> s_AMD_NPU_provides]])
      ELSE IF branch = "intel_igpu"
      THEN Return([whisperx |-> [backend |-> s_igpu, variant |-> s_full, reason |-> s_Intel_iGPU_provides], kokoro |-> [backend |-> s_igpu, reason |-> s_Intel_iGPU_optimized]])
      ELSE IF branch = "nvidia_gpu"
      THEN IF self_detected_hardware["nvidia_gpu"].devices = <<>> THEN Raise("IndexError")
           ELSE Return([whisperx |-> [backend |-> s_cuda, variant |-> s_full, reason |-> CudaReason(self_detected_hardware["nvidia_gpu"])], kokoro |-> [backend |-> s_cuda, reason |-> s_NVIDIA_GPU_provides]])
      ELSE IF branch = "amd_igpu"
      THEN Return([DefaultRecommendations EXCEPT !.whisperx.reason = AmdIgpuReason, !.kokoro.reason = AmdIgpuReason])
      ELSE Return(DefaultRecommendations)

\* the inventory dropped once a recommendation has been made from it
InventoryAfterRecommend_Dropped(self_detected_hardware) == EmptyDict

\* lines 286-337: recommend_configuration assigns to no field of self; this is
\* self.detected_hardware after the call
InventoryAfterRecommend(self_detected_hardware) == self_detected_hardware

\* sep.join(parts)
RECURSIVE Join(_, _)
Join(parts, sep) == IF parts = <<>> THEN <<>> ELSE IF Len(parts) = 1 THEN parts[1] ELSE parts[1] \o sep \o Join(Tail(parts), sep)

\* the emoji of the report, each one character, named by code point
c_unicorn == "U+1F984"
c_check == "U+2705"
c_cross == "U+274C"

\* lines 341-390: the report lines before the recommendation
ReportHardwareLines(self_system_info, hw) ==
  LET cpu == IF "cpu" \in DOMAIN hw THEN hw["cpu"] ELSE EmptyDict
      nvidia == IF "nvidia_gpu" \in DOMAIN hw THEN hw["nvidia_gpu"] ELSE EmptyDict
      amd_npu == IF "amd_npu" \in DOMAIN hw THEN hw["amd_npu"] ELSE EmptyDict
      intel_igpu == IF "intel_igpu" \in DOMAIN hw THEN hw["intel_igpu"] ELSE EmptyDict
      amd_igpu == IF "amd_igpu" \in DOMAIN hw THEN hw["amd_igpu"] ELSE EmptyDict
  IN  <<<<c_unicorn>> \o s_report_title, [i \in 1..50 |-> "="], <<>>>>
      \o <<s_System_Information, s_OS \o self_system_info.os, s_Architecture \o self_system_info.arch, s_Processor \o self_system_info.processor, <<>>>>
      \o <<s_Detected_Hardware>>
      \o (IF GetAvailable(hw, "cpu")
          THEN <<s_indent \o <<c_check>> \o s_CPU \o cpu.vendor \o s_open \o IntStr(cpu.cores) \o s_cores>> \o (IF cpu.features # <<>> THEN <<s_Features \o Join(cpu.features, s_comma_space)>> ELSE <<>>)
          ELSE <<>>)
      \o (IF GetAvailable(hw, "nvidia_gpu")
          THEN <<s_indent \o <<c_check>> \o s_NVIDIA_GPU_line \o IntStr(Len(nvidia.devices)) \o s_devices>> \o [i \in 1..Len(nvidia.devices) |-> s_dash \o nvidia.devices[i].name \o s_open \o nvidia.devices[i].memory \o s_close]
          ELSE <<s_indent \o <<c_cross>> \o s_NVIDIA_not_detected>>)
      \o (IF GetAvailable(hw, "amd_npu")
          THEN <<s_indent \o <<c_check>> \o s_AMD_NPU_line \o FormatOptStr(amd_npu.type) \o s_open \o FormatOptInt(amd_npu.tops) \o s_TOPS_close>>
          ELSE <<s_indent \o <<c_cross>> \o s_AMD_NPU_not_detected>>)
      \o (IF GetAvailable(hw, "intel_igpu")
          THEN <<s_indent \o <<c_check>> \o s_Intel_iGPU_line \o FormatOptStr(intel_igpu.device)>>
          ELSE <<s_indent \o <<c_cross>> \o s_Intel_iGPU_not_detected>>)
      \o (IF GetAvailable(hw, "amd_igpu")
          THEN <<s_indent \o <<c_check>> \o s_AMD_iGPU_line \o FormatOptStr(amd_igpu.model)>>
          ELSE <<s_indent \o <<c_cross>> \o s_AMD_iGPU_not_detected>>)
      \o <<<<>>>>

generate_report(self_system_info, self_detected_hardware) ==
  LET recommendations == recommend_configuration(self_detected_hardware)
      r == recommendations.value
  IN  IF recommendations.status = "raise" THEN recommendations
      ELSE Return(Join(ReportHardwareLines(self_system_info, self_detected_hardware) \o <<s_Recommended_Configuration, s_WhisperX \o r.whisperx.backend \o s_open \o r.whisperx.reason \o s_close, s_Kokoro \o r.kokoro.backend \o s_open \o r.kokoro.reason \o s_close>>, s_newline))

\* lines 34-42: the five records are built in order and assigned together; an exception leaves the old inventory
detect_all(e, self_system_info, self_detected_hardware) ==
  LET cpu == detect_cpu(e)
      nvidia_gpu == detect_nvidia_gpu(e)
      amd_npu == detect_amd_npu(e, self_system_info)
      intel_igpu == detect_intel_igpu(e)
      amd_igpu == detect_amd_igpu(e, self_system_info, self_detected_hardware)
  IN  IF cpu.status = "raise" THEN cpu
      ELSE IF nvidia_gpu.status = "raise" THEN nvidia_gpu
      ELSE IF amd_npu.status = "raise" THEN amd_npu
      ELSE IF intel_igpu.status = "raise" THEN intel_igpu
      ELSE IF amd_igpu.status = "raise" THEN amd_igpu
      ELSE Return([cpu |-> cpu.value, nvidia_gpu |-> nvidia_gpu.value, amd_npu |-> amd_npu.value, intel_igpu |-> intel_igpu.value, amd_igpu |-> amd_igpu.value])

(***************************************************************************)
(* The NPU runtime (src/kokoro-tts/npu/npu_runtime.py).                    *)
(*                                                                         *)
(* A host gives every candidate device path one kind: "absent" (exists()   *)
(* is false), "open_raises" (os.open raises), "ioctl_raises" (it opens and *)
(* the GET_INFO ioctl raises) or "responds".  The process's descriptor     *)
(* table is a set of descriptors, each remembering the path, the runtime   *)
(* whose method opened it and the caller that was running that method.     *)
(* os.open returns the lowest free number above stdin, stdout and stderr   *)
(* and raises once MaxFds descriptors are open.  A method's effect is the  *)
(* object after the call, the table after the call, the system calls it    *)
(* made and its outcome.                                                   *)
(***************************************************************************)
DRM_IOCTL_AMDXDNA_CREATE_BO == "0xC0206443"
DRM_IOCTL_AMDXDNA_GET_INFO == "0xC0106447"

device_paths == <<"/dev/accel/accel0", "/dev/dri/renderD128", "/dev/dri/renderD129", "/dev/kfd", "/dev/dri/card1">>

DevicePathSet == {device_paths[i] : i \in 1..Len(device_paths)}
NodeKinds == {"absent", "open_raises", "ioctl_raises", "responds"}
\* hosts on which at most one of the candidate paths exists, and hosts on
\* which the first two candidates exist and the others do not
OneNodeHosts == {h \in [DevicePathSet -> NodeKinds] : Cardinality({p \in DevicePathSet : h[p] # "absent"}) <= 1}
TwoNodeHosts == {[p \in DevicePathSet |-> IF p = device_paths[1] THEN a ELSE IF p = device_paths[2] THEN b ELSE "absent"] : a, b \in NodeKinds \ {"absent"}}
DeviceHosts == OneNodeHosts \cup TwoNodeHosts
\* line 20: the flag is read from the environment when the module is loaded
s_1 == <<"1">>
s_true == <<"t", "r", "u", "e">>
s_yes == <<"y", "e", "s">>
e_unset == <<>>
e_0 == <<"0">>
e_on == <<"o", "n">>
e_True == <<"T", "r", "u", "e">>
e_YES == <<"Y", "E", "S">>
ParseCpuOnlyMode(value) == Lower(value) \in {s_1, s_true, s_yes}
\* the processes modelled: CPU_ONLY_MODE unset or given a value that does not
\* set the flag, on every host; given a value that sets it, on the hosts
\* where no candidate but the first may exist
FirstNodeHosts == {h \in OneNodeHosts : \A i \in 2..Len(device_paths) : h[device_paths[i]] = "absent"}
Process(value, nodes) == [CPU_ONLY_MODE |-> ParseCpuOnlyMode(value), devnodes |-> nodes]
Processes == {Process(value, h) : value \in {e_unset, e_0, e_on}, h \in DeviceHosts} \cup {Process(value, h) : value \in {s_1, e_True, e_YES}, h \in FirstNodeHosts}

\* the callers (threads) of one process, the SimplifiedNPURuntime object they
\* construct themselves, and the one an NPURuntime constructs for itself
Callers == {1, 2}
Runtimes == {1}
InnerRuntime == 0

Who(caller, runtime) == [caller |-> caller, runtime |-> runtime]
Descriptor(fd, path, who) == [fd |-> fd, path |-> path, runtime |-> who.runtime, caller |-> who.caller]
OpenFds(tbl) == {d.fd : d \in tbl}
LowestFree(tbl) == CHOOSE n \in 3..(3 + MaxFds) : n \notin OpenFds(tbl) /\ \A m \in 3..(n - 1) : m \in OpenFds(tbl)
OpenerOf(tbl, fd) == (CHOOSE d \in tbl : d.fd = fd).caller

SysExists(path, ok, who) == [call |-> "exists", path |-> path, fd |-> 0, cmd |-> "", ok |-> ok, opener |-> who.caller]
SysOpen(path, fd, ok, who) == [call |-> "open", path |-> path, fd |-> fd, cmd |-> "", ok |-> ok, opener |-> who.caller]
SysIoctl(fd, cmd, ok, opener) == [call |-> "ioctl", path |-> "", fd |-> fd, cmd |-> cmd, ok |-> ok, opener |-> opener]
SysClose(fd, opener) == [call |-> "close", path |-> "", fd |-> fd, cmd |-> "", ok |-> TRUE, opener |-> opener]

Effect(self, tbl, syscalls, outcome) == [self |-> self, fdtable |-> tbl, syscalls |-> syscalls, outcome |-> outcome]

\* SimplifiedNPURuntime.__init__
SimplifiedNPURuntime_init == [fd |-> None, model_loaded |-> FALSE, model_buffer |-> None]

\* the loop leaving a candidate open when it does not answer the capability query
RECURSIVE TryDevicePaths_KeepsFailed(_, _, _, _, _, _)
TryDevicePaths_KeepsFailed(i, self_fd, syscalls, tbl, nodes, who) ==
  IF i > Len(device_paths) THEN [fd |-> self_fd, fdtable |-> tbl, syscalls |-> syscalls, outcome |-> Return(FALSE)]
  ELSE IF nodes[device_paths[i]] = "absent"
    THEN TryDevicePaths_KeepsFailed(i + 1, self_fd, Append(syscalls, SysExists(device_paths[i], FALSE, who)), tbl, nodes, who)
  ELSE IF nodes[device_paths[i]] = "open_raises" \/ Cardinality(tbl) >= MaxFds
    THEN TryDevicePaths_KeepsFailed(i + 1, self_fd, syscalls \o <<SysExists(device_paths[i], TRUE, who), SysOpen(device_paths[i], 0, FALSE, who)>>, tbl, nodes, who)
  ELSE IF nodes[device_paths[i]] = "responds"
    THEN [fd |-> Some(LowestFree(tbl)),
          fdtable |-> tbl \cup {Descriptor(LowestFree(tbl), device_paths[i], who)},
          syscalls |-> syscalls \o <<SysExists(device_paths[i], TRUE, who), SysOpen(device_paths[i], LowestFree(tbl), TRUE, who), SysIoctl(LowestFree(tbl), DRM_IOCTL_AMDXDNA_GET_INFO, TRUE, who.caller)>>,
          outcome |-> Return(TRUE)]
  ELSE TryDevicePaths_KeepsFailed(i + 1, None, syscalls \o <<SysExists(device_paths[i], TRUE, who), SysOpen(device_paths[i], LowestFree(tbl), TRUE, who), SysIoctl(LowestFree(tbl), DRM_IOCTL_AMDXDNA_GET_INFO, FALSE, who.caller)>>, tbl \cup {Descriptor(LowestFree(tbl), device_paths[i], who)}, nodes, who)

\* the loop of open_device from candidate i on; self_fd is self.fd so far
RECURSIVE TryDevicePaths(_, _, _, _, _, _)
TryDevicePaths(i, self_fd, syscalls, tbl, nodes, who) ==
  IF i > Len(device_paths) THEN [fd |-> self_fd, fdtable |-> tbl, syscalls |-> syscalls, outcome |-> Return(FALSE)]
  ELSE IF nodes[device_paths[i]] = "absent"
    THEN TryDevicePaths(i + 1, self_fd, Append(syscalls, SysExists(device_paths[i], FALSE, who)), tbl, nodes, who)
  ELSE IF nodes[device_paths[i]] = "open_raises" \/ Cardinality(tbl) >= MaxFds
    THEN TryDevicePaths(i + 1, self_fd, syscalls \o <<SysExists(device_paths[i], TRUE, who), SysOpen(device_paths[i], 0, FALSE, who)>>, tbl, nodes, who)
  ELSE IF nodes[device_paths[i]] = "responds"
    THEN [fd |-> Some(LowestFree(tbl)),
          fdtable |-> tbl \cup {Descriptor(LowestFree(tbl), device_paths[i], who)},
          syscalls |-> syscalls \o <<SysExists(device_paths[i], TRUE, who), SysOpen(device_paths[i], LowestFree(tbl), TRUE, who), SysIoctl(LowestFree(tbl), DRM_IOCTL_AMDXDNA_GET_INFO, TRUE, who.caller)>>,
          outcome |-> Return(TRUE)]
  ELSE TryDevicePaths(i + 1, None, syscalls \o <<SysExists(device_paths[i], TRUE, who), SysOpen(device_paths[i], LowestFree(tbl), TRUE, who), SysIoctl(LowestFree(tbl), DRM_IOCTL_AMDXDNA_GET_INFO, FALSE, who.caller), SysClose(LowestFree(tbl), who.caller)>>, tbl, nodes, who)

open_device(self, tbl, nodes, who) ==
  LET tried == TryDevicePaths(1, self.fd, <<>>, tbl, nodes, who)
  IN  Effect([self EXCEPT !.fd = tried.fd], tried.fdtable, tried.syscalls, tried.outcome)

is_available(self) == self.fd # None

\* the model files of the host: open(model_path, 'rb').read()
ModelPaths == {"kokoro.onnx", "missing.onnx"}
ReadModel(model_path) == IF model_path = "kokoro.onnx" THEN FileWith(<<8, 1>>) ELSE FileMissing

\* what the CREATE_BO ioctl does: it raises, or fills in a buffer handle
IoctlRaises == [ok |-> FALSE, handle |-> 0]
IoctlReturns(handle) == [ok |-> TRUE, handle |-> handle]
CreateBoRuns == {IoctlRaises, IoctlReturns(1)}

\* the except branches of load_model with the earlier binding dropped
LoadFailed_Unbinds(self, tbl, syscalls) == Effect([self EXCEPT !.model_buffer = None, !.model_loaded = FALSE], tbl, syscalls, Return(FALSE))

\* the except branches of load_model: the error is logged, False returned
LoadFailed(self, tbl, syscalls) == Effect(self, tbl, syscalls, Return(FALSE))

CreateBo(self, tbl, ok) == SysIoctl(self.fd[1], DRM_IOCTL_AMDXDNA_CREATE_BO, ok, OpenerOf(tbl, self.fd[1]))

ModelBuffer(model_data, handle) == [data |-> model_data, handle |-> handle, size |-> Len(model_data)]

\* load_model keeping the payload before it looks at the handle
load_model_BindsBeforeCheck(self, tbl, model_path, bo) ==
  IF ~is_available(self)
    THEN IF ReadModel(model_path).kind # "file" THEN Effect(self, tbl, <<>>, Return(FALSE))
         ELSE Effect([self EXCEPT !.model_buffer = Some(ModelBuffer(ReadModel(model_path).text, 0)), !.model_loaded = TRUE], tbl, <<>>, Return(FALSE))
  ELSE IF ReadModel(model_path).kind # "file" \/ Cardinality(tbl) >= MaxFds
    THEN LoadFailed(self, tbl, <<>>)
  ELSE IF ~bo.ok
    THEN LoadFailed(self, tbl, <<CreateBo(self, tbl, FALSE)>>)
  ELSE Effect([self EXCEPT !.model_buffer = Some(ModelBuffer(ReadModel(model_path).text, bo.handle)), !.model_loaded = TRUE],
              tbl, <<CreateBo(self, tbl, TRUE)>>, Return(TRUE))

\* reading the model file takes a descriptor of its own for a moment
load_model(self, tbl, model_path, bo) ==
  IF ~is_available(self) THEN Effect(self, tbl, <<>>, Return(FALSE))
  ELSE IF ReadModel(model_path).kind # "file" \/ Cardinality(tbl) >= MaxFds
    THEN LoadFailed(self, tbl, <<>>)
  ELSE IF ~bo.ok
    THEN LoadFailed(self, tbl, <<CreateBo(self, tbl, FALSE)>>)
  ELSE Effect([self EXCEPT !.model_buffer = Some(ModelBuffer(ReadModel(model_path).text, bo.handle)), !.model_loaded = TRUE],
              tbl, <<CreateBo(self, tbl, TRUE)>>, Return(TRUE))

\* an ndarray is its shape; the samples np.random.randn draws are left out
Array(shape) == [shape |-> shape, dtype |-> "float32"]
InferenceInputs ==
  {EmptyDict, [style |-> Array(<<1, 256>>)], [tokens |-> Array(<<MaxTokens>>)]}
  \cup {[tokens |-> Array(<<1, n>>), style |-> Array(<<1, 256>>)] : n \in 1..MaxTokens}

run_inference(self, inputs) ==
  IF ~self.model_loaded THEN Raise("RuntimeError: Model not loaded")
  ELSE IF "tokens" \in DOMAIN inputs
    THEN IF Len(inputs.tokens.shape) < 2 THEN Raise("IndexError")
         ELSE Return([audio |-> Array(<<1, inputs.tokens.shape[2] * 256>>)])
  ELSE Return(EmptyDict)

\* close without the test of self.fd: os.close(None) raises
close_Unguarded(self, tbl) ==
  IF self.fd # None
    THEN Effect([self EXCEPT !.fd = None], {d \in tbl : d.fd # self.fd[1]}, <<SysClose(self.fd[1], OpenerOf(tbl, self.fd[1]))>>, Return(None))
  ELSE Effect(self, tbl, <<>>, Raise("TypeError"))

close(self, tbl) ==
  IF self.fd # None
    THEN Effect([self EXCEPT !.fd = None], {d \in tbl : d.fd # self.fd[1]}, <<SysClose(self.fd[1], OpenerOf(tbl, self.fd[1]))>>, Return(None))
  ELSE Effect(self, tbl, <<>>, Return(None))

\* NPURuntime is its fields available and _runtime
\* the constructor taking the else branch whatever the flag says
NPURuntime_init_AlwaysProbe(cpu_only, tbl, nodes, who) ==
  LET opened == open_device(SimplifiedNPURuntime_init, tbl, nodes, who)
  IN  Effect([available |-> is_available(opened.self), runtime |-> Some(opened.self)], opened.fdtable, opened.syscalls, Return(None))

NPURuntime_init(cpu_only, tbl, nodes, who) ==
  IF cpu_only THEN Effect([available |-> FALSE, runtime |-> None], tbl, <<>>, Return(None))
  ELSE LET opened == open_device(SimplifiedNPURuntime_init, tbl, nodes, who)
       IN  Effect([available |-> is_available(opened.self), runtime |-> Some(opened.self)], opened.fdtable, opened.syscalls, Return(None))

NPURuntime_is_available(self) == self.available

NPURuntime_load_model(self, tbl, model_path, bo) ==
  IF ~self.available THEN Effect(self, tbl, <<>>, Return(FALSE))
  ELSE LET loaded == load_model(self.runtime[1], tbl, model_path, bo)
       IN  Effect([self EXCEPT !.runtime = Some(loaded.self)], loaded.fdtable, loaded.syscalls, loaded.outcome)

NPURuntime_run_inference(self, inputs) ==
  IF ~self.available THEN Raise("RuntimeError: NPU not available")
  ELSE run_inference(self.runtime[1], inputs)

\* the runtime's variables where no runtime call has been made: nothing has
\* happened to any runtime, and no call has been recorded
NoHistory == [closed |-> {}, refused |-> {}]
NoArgs == EmptyDict
NoCall == [caller |-> 0, runtime |-> InnerRuntime, args |-> NoArgs, before |-> None, closed_before |-> FALSE, syscalls |-> <<>>]

RuntimeUnused ==
  /\ CPU_ONLY_MODE = FALSE
  /\ devnodes = [p \in DevicePathSet |-> "absent"]
  /\ fdtable = {}
  /\ runtimes = [r \in Runtimes |-> SimplifiedNPURuntime_init]
  /\ npu = None
  /\ history = NoHistory
  /\ call = NoCall

(***************************************************************************)
(* The detector as a state machine: construction, then any sequence of     *)
(* calls of its methods on one host.  ret is the outcome of the last call. *)
(***************************************************************************)
Called(op, outcome) == [op |-> op, status |-> outcome.status, value |-> outcome.value, exc |-> outcome.exc]
NoPrev == Called("none", Return(None))

Init ==
  /\ env \in Hosts
  /\ system_info = [os |-> s_Linux, arch |-> p_x86_64, processor |-> env.processor]
  /\ detected_hardware = EmptyDict
  /\ ret = Called("__init__", Return(None))
  /\ prev = NoPrev
  /\ RuntimeUnused

DetectAll ==
  \E outcome \in {detect_all(env, system_info, detected_hardware)} :
    /\ ret' = Called("detect_all", outcome)
    /\ detected_hardware' = IF outcome.status = "return" THEN outcome.value ELSE detected_hardware
    /\ prev' = ret
    /\ UNCHANGED <<system_info, env>>
    /\ UNCHANGED runtime_vars

RecommendConfiguration ==
  \E outcome \in {recommend_configuration(detected_hardware)} :
    /\ ret' = Called("recommend_configuration", outcome)
    /\ detected_hardware' = InventoryAfterRecommend(detected_hardware)
    /\ prev' = ret
    /\ UNCHANGED <<system_info, env>>
    /\ UNCHANGED runtime_vars

GenerateReport ==
  \E outcome \in {generate_report(system_info, detected_hardware)} :
    /\ ret' = Called("generate_report", outcome)
    /\ detected_hardware' = InventoryAfterRecommend(detected_hardware)
    /\ prev' = ret
    /\ UNCHANGED <<system_info, env>>
    /\ UNCHANGED runtime_vars

Next ==
  \/ DetectAll
  \/ RecommendConfiguration
  \/ GenerateReport

Spec == Init /\ [][Next]_vars

(***************************************************************************)
(* The NPU runtime as a state machine: one process on one host, its        *)
(* SimplifiedNPURuntime objects constructed, and any sequence of calls of  *)
(* their methods, and of the construction and the methods of one           *)
(* NPURuntime, by the callers of the process.  Each call is one step.      *)
(* history.closed holds the runtimes close has been called on,             *)
(* history.refused those whose open_device has returned False; call names  *)
(* the caller, the runtime and the arguments of the last call, the object  *)
(* as it was before the call, whether close had been called on it before,  *)
(* and the system calls the call made.                                     *)
(***************************************************************************)
DetectorUnused ==
  /\ env = Host(p_x86_64, FileMissing, NvidiaAbsent, NpuAbsent, DriAbsent)
  /\ system_info = [os |-> s_Linux, arch |-> p_x86_64, processor |-> env.processor]
  /\ detected_hardware = EmptyDict
  /\ prev = NoPrev

RuntimeInit ==
  /\ \E process \in Processes :
       /\ CPU_ONLY_MODE = process.CPU_ONLY_MODE
       /\ devnodes = process.devnodes
  /\ fdtable = {}
  /\ runtimes = [r \in Runtimes |-> SimplifiedNPURuntime_init]
  /\ npu = None
  /\ history = NoHistory
  /\ call = NoCall
  /\ ret = Called("SimplifiedNPURuntime.__init__", Return(None))
  /\ DetectorUnused

CallOf(c, r, args, before, syscalls) == [caller |-> c, runtime |-> r, args |-> args, before |-> before, closed_before |-> r \in history.closed, syscalls |-> syscalls]

OpenDevice ==
  \E c \in Callers, r \in Runtimes :
    \E done \in {open_device(runtimes[r], fdtable, devnodes, Who(c, r))} :
      /\ runtimes' = [runtimes EXCEPT ![r] = done.self]
      /\ fdtable' = done.fdtable
      /\ ret' = Called("open_device", done.outcome)
      /\ call' = CallOf(c, r, NoArgs, Some(runtimes[r]), done.syscalls)
      /\ history' = [history EXCEPT !.refused = IF done.outcome.value THEN @ ELSE @ \cup {r}]
      /\ UNCHANGED <<CPU_ONLY_MODE, devnodes, npu>>
      /\ UNCHANGED detector_vars

IsAvailable ==
  \E c \in Callers, r \in Runtimes :
    /\ ret' = Called("is_available", Return(is_available(runtimes[r])))
    /\ call' = CallOf(c, r, NoArgs, Some(runtimes[r]), <<>>)
    /\ UNCHANGED <<CPU_ONLY_MODE, devnodes, fdtable, runtimes, npu, history>>
    /\ UNCHANGED detector_vars

LoadModel ==
  \E c \in Callers, r \in Runtimes, model_path \in ModelPaths, bo \in CreateBoRuns :
    \E done \in {load_model(runtimes[r], fdtable, model_path, bo)} :
      /\ runtimes' = [runtimes EXCEPT ![r] = done.self]
      /\ fdtable' = done.fdtable
      /\ ret' = Called("load_model", done.outcome)
      /\ call' = CallOf(c, r, [model_path |-> model_path, bo |-> bo], Some(runtimes[r]), done.syscalls)
      /\ UNCHANGED <<CPU_ONLY_MODE, devnodes, npu, history>>
      /\ UNCHANGED detector_vars

RunInference ==
  \E c \in Callers, r \in Runtimes, inputs \in InferenceInputs :
    /\ ret' = Called("run_inference", run_inference(runtimes[r], inputs))
    /\ call' = CallOf(c, r, [inputs |-> inputs], Some(runtimes[r]), <<>>)
    /\ UNCHANGED <<CPU_ONLY_MODE, devnodes, fdtable, runtimes, npu, history>>
    /\ UNCHANGED detector_vars

Close ==
  \E c \in Callers, r \in Runtimes :
    \E done \in {close(runtimes[r], fdtable)} :
      /\ runtimes' = [runtimes EXCEPT ![r] = done.self]
      /\ fdtable' = done.fdtable
      /\ ret' = Called("close", done.outcome)
      /\ call' = CallOf(c, r, NoArgs, Some(runtimes[r]), done.syscalls)
      /\ history' = [history EXCEPT !.closed = @ \cup {r}]
      /\ UNCHANGED <<CPU_ONLY_MODE, devnodes, npu>>
      /\ UNCHANGED detector_vars

NPURuntimeInit ==
  \E c \in Callers :
    \E done \in {NPURuntime_init(CPU_ONLY_MODE, fdtable, devnodes, Who(c, InnerRuntime))} :
      /\ npu = None
      /\ npu' = Some(done.self)
      /\ fdtable' = done.fdtable
      /\ ret' = Called("NPURuntime.__init__", done.outcome)
      /\ call' = CallOf(c, InnerRuntime, NoArgs, None, done.syscalls)
      /\ UNCHANGED <<CPU_ONLY_MODE, devnodes, runtimes, history>>
      /\ UNCHANGED detector_vars

NPURuntimeIsAvailable ==
  \E c \in Callers :
    /\ npu # None
    /\ ret' = Called("NPURuntime.is_available", Return(NPURuntime_is_available(npu[1])))
    /\ call' = CallOf(c, InnerRuntime, NoArgs, npu, <<>>)
    /\ UNCHANGED <<CPU_ONLY_MODE, devnodes, fdtable, runtimes, npu, history>>
    /\ UNCHANGED detector_vars

NPURuntimeLoadModel ==
  \E c \in Callers, model_path \in ModelPaths, bo \in CreateBoRuns :
    /\ npu # None
    /\ \E done \in {NPURuntime_load_model(npu[1], fdtable, model_path, bo)} :
         /\ npu' = Some(done.self)
         /\ fdtable' = done.fdtable
         /\ ret' = Called("NPURuntime.load_model", done.outcome)
         /\ call' = CallOf(c, InnerRuntime, [model_path |-> model_path, bo |-> bo], npu, done.syscalls)
    /\ UNCHANGED <<CPU_ONLY_MODE, devnodes, runtimes, history>>
    /\ UNCHANGED detector_vars

NPURuntimeRunInference ==
  \E c \in Callers, inputs \in InferenceInputs :
    /\ npu # None
    /\ ret' = Called("NPURuntime.run_inference", NPURuntime_run_inference(npu[1], inputs))
    /\ call' = CallOf(c, InnerRuntime, [inputs |-> inputs], npu, <<>>)
    /\ UNCHANGED <<CPU_ONLY_MODE, devnodes, fdtable, runtimes, npu, history>>
    /\ UNCHANGED detector_vars

RuntimeNext ==
  \/ OpenDevice
  \/ IsAvailable
  \/ LoadModel
  \/ RunInference
  \/ Close
  \/ NPURuntimeInit
  \/ NPURuntimeIsAvailable
  \/ NPURuntimeLoadModel
  \/ NPURuntimeRunInference

RuntimeSpec == RuntimeInit /\ [][RuntimeNext]_vars



(***************************************************************************)
(* Properties                                                              *)
(***************************************************************************)
Backends == {s_cpu, s_npu, s_igpu, s_cuda}
Consumers == {"whisperx", "kokoro"}
Recommended == ret.op = "recommend_configuration"
Detected == detected_hardware # EmptyDict

\* C1: every call of recommend_configuration, on the empty inventory and on every
\* inventory detect_all produces, returns (never raises) a dict with exactly the two
\* consumers, each with one backend id out of cpu, npu, igpu, cuda.
C1_ArbitrationTotal == Recommended => ret.status = "return" /\ DOMAIN ret.value = Consumers /\ \A c \in Consumers : ret.value[c].backend \in Backends

\* C1 witness: arbitration has run on a detected inventory with a discrete GPU and chose cuda
C1_Witness == Recommended /\ Detected /\ detected_hardware["nvidia_gpu"].available /\ ret.status = "return" /\ ret.value["whisperx"].backend = s_cuda

\* C2: whenever the AMD NPU record is available, both consumers get backend npu,
\* whatever the other records say.
C2_NpuFirst == (Recommended /\ GetAvailable(detected_hardware, "amd_npu")) => ret.status = "return" /\ \A c \in Consumers : ret.value[c].backend = s_npu

\* C2 witness: NPU and NVIDIA GPU both available and arbitration has run
C2_Witness == Recommended /\ GetAvailable(detected_hardware, "amd_npu") /\ GetAvailable(detected_hardware, "nvidia_gpu") /\ GetAvailable(detected_hardware, "intel_igpu")

\* C3: without an NPU, an available Intel iGPU gives igpu to both consumers even
\* beside an NVIDIA GPU or an AMD iGPU; cuda is chosen only when NVIDIA is available
\* and neither the NPU nor the Intel iGPU is.
C3_IgpuBeforeCuda ==
  (Recommended /\ ret.status = "return") =>
    /\ (~GetAvailable(detected_hardware, "amd_npu") /\ GetAvailable(detected_hardware, "intel_igpu")) => \A c \in Consumers : ret.value[c].backend = s_igpu
    /\ \A c \in Consumers : ret.value[c].backend = s_cuda => (GetAvailable(detected_hardware, "nvidia_gpu") /\ ~GetAvailable(detected_hardware, "amd_npu") /\ ~GetAvailable(detected_hardware, "intel_igpu"))

\* C3 witness: Intel iGPU, NVIDIA GPU and AMD iGPU available, no NPU, arbitration has run
C3_Witness == Recommended /\ ~GetAvailable(detected_hardware, "amd_npu") /\ GetAvailable(detected_hardware, "intel_igpu") /\ GetAvailable(detected_hardware, "nvidia_gpu") /\ GetAvailable(detected_hardware, "amd_igpu")

OnlyAmdIgpu == GetAvailable(detected_hardware, "amd_igpu") /\ ~GetAvailable(detected_hardware, "amd_npu") /\ ~GetAvailable(detected_hardware, "intel_igpu") /\ ~GetAvailable(detected_hardware, "nvidia_gpu")

\* C4: when the AMD iGPU is the only available accelerator, both consumers keep
\* backend cpu and both reasons name the AMD iGPU and differ from the reason given
\* when no accelerator is available.
C4_AmdIgpuNoted == (Recommended /\ OnlyAmdIgpu) => ret.status = "return" /\ \A c \in Consumers : ret.value[c].backend = s_cpu /\ Contains(ret.value[c].reason, s_AMD_iGPU) /\ ret.value[c].reason # recommend_configuration(EmptyDict).value[c].reason

\* C4 witness: arbitration has run on an inventory whose only accelerator is the AMD iGPU
C4_Witness == Recommended /\ OnlyAmdIgpu

Classes == {"cpu", "nvidia_gpu", "amd_npu", "intel_igpu", "amd_igpu"}
Accelerators == Classes \ {"cpu"}
KnownModelSubstrings == {s_7840, s_7940, s_7640, s_7540, s_8840, s_8940, s_8640, s_8540, s_ai_3}

\* the host gives no signal for a class
NvidiaNoSignal == env.nvidia.query.exc \in {"FileNotFoundError", "TimeoutExpired"} \/ (env.nvidia.query.exc = "none" /\ env.nvidia.query.returncode # 0)
NpuNodeSignal == env.npu.dev_xdna = "present" \/ env.npu.dev_npu_nodes = "present" \/ env.npu.opt_ryzen_ai_sw = "present"
NpuModelSignal == \E m \in KnownModelSubstrings : Contains(Lower(env.processor), m)
RenderNodeSet == IF env.dri.dev_dri = "present" THEN {env.dri.render_devices[i] : i \in 1..Len(env.dri.render_devices)} ELSE {}
IntelNoSignal == (\A d \in RenderNodeSet : ~(env.dri.vainfo[d].exc = "none" /\ Contains(env.dri.vainfo[d].stdout, s_Intel)) /\ Strip(env.dri.vendor[CardOf(d)].text) # s_0x8086) /\ ~(env.dri.intel_gpu_frequency.exc = "none" /\ env.dri.intel_gpu_frequency.returncode = 0)
AmdNoSignal == \A d \in RenderNodeSet : Strip(env.dri.vendor[CardOf(d)].text) # s_0x1002
NoSignal == NvidiaNoSignal /\ ~NpuNodeSignal /\ ~NpuModelSignal /\ IntelNoSignal /\ AmdNoSignal

ScenarioA(reason) ==
  NoSignal =>
    /\ ret.op = "detect_all" => (ret.status = "return" /\ ret.value["cpu"].available /\ \A c \in Accelerators : ~ret.value[c].available)
    /\ (Recommended /\ Detected) => (ret.status = "return" /\ \A c \in Consumers : ret.value[c].backend = s_cpu /\ ret.value[c].reason = reason)

\* C5 as stated: on a host where no accelerator probe gives a signal, detect_all yields
\* cpu available and the four accelerators unavailable, and both consumers get backend
\* cpu with the justification "no acceleration hardware detected".
C5_ScenarioA_Original == ScenarioA(s_no_acceleration)

\* C5 as amended: as above, with the justification "Default CPU fallback".
C5_ScenarioA == ScenarioA(s_Default_CPU_fallback)

\* C5 witness: arbitration has run on the inventory detected on a host without any signal
C5_Witness == NoSignal /\ Recommended /\ Detected /\ env.dri.dev_dri = "present" /\ env.dri.render_devices # <<>>

\* Scenario B host: a device node or the software marker is present, no path probe fails,
\* and the processor string matches no known model
ScenarioB == NpuNodeSignal /\ ~NpuModelSignal /\ "oserror" \notin {env.npu.dev_xdna, env.npu.dev_npu_nodes, env.npu.opt_ryzen_ai_sw}

\* C6: in scenario B the NPU record is available with type and tops unset, both consumers
\* get backend npu, and no justification carries a throughput figure, not even the
\* rendering of the unset value.
C6_ScenarioB ==
  (ScenarioB /\ Detected) =>
    /\ detected_hardware["amd_npu"].available /\ detected_hardware["amd_npu"].type = None /\ detected_hardware["amd_npu"].tops = None
    /\ Recommended => (ret.status = "return" /\ \A c \in Consumers : ret.value[c].backend = s_npu /\ ~Contains(ret.value[c].reason, s_TOPS))

\* Scenario C host: a Phoenix or Hawk Point model in the processor string, no node, no marker
ScenarioC == (\E m \in {s_7840, s_7940, s_7640, s_7540, s_8840, s_8940, s_8640, s_8540} : Contains(env.processor, m)) /\ env.npu.dev_xdna = "absent" /\ env.npu.dev_npu_nodes = "absent" /\ env.npu.opt_ryzen_ai_sw = "absent"

\* C7: in scenario C the NPU record is available with type "XDNA1" and tops 16, and
\* both consumers get backend npu.
C7_ScenarioC ==
  (ScenarioC /\ Detected) =>
    /\ detected_hardware["amd_npu"].available /\ detected_hardware["amd_npu"].type = Some(s_XDNA1) /\ detected_hardware["amd_npu"].tops = Some(16)
    /\ Recommended => (ret.status = "return" /\ \A c \in Consumers : ret.value[c].backend = s_npu)

\* C7 witness: arbitration has run after detection on a Hawk Point host without nodes
C7_Witness == ScenarioC /\ Detected /\ Recommended /\ Contains(env.processor, s_8840)

\* Scenario D host: both nvidia-smi runs complete, the first with n well-formed rows, and
\* neither the NPU nor the Intel iGPU gives a signal
ScenarioD(n) == env.nvidia.query = Completed(0, RowsOutput(n)) /\ env.nvidia.version.exc = "none" /\ ~NpuNodeSignal /\ ~NpuModelSignal /\ IntelNoSignal

UnavailableRecord(class) ==
  CASE class = "nvidia_gpu" -> [available |-> FALSE, devices |-> <<>>, cuda_version |-> None, driver_version |-> None]
    [] class = "amd_npu" -> [available |-> FALSE, type |-> None, driver |-> None, tops |-> None]
    [] class = "intel_igpu" -> [available |-> FALSE, device |-> None, driver |-> None, compute_units |-> None]
    [] class = "amd_igpu" -> [available |-> FALSE, device |-> None, driver |-> None, model |-> None]

\* C9: in every detected inventory a record with available = false has every other
\* field at its unset value, whatever the probes of its class met.
C9_NoPartialLeak == Detected => \A c \in Accelerators : ~detected_hardware[c].available => detected_hardware[c] = UnavailableRecord(c)

\* C9 witness: an inventory whose NPU record is unavailable although a later probe of
\* the class found its path, the first probe having failed
C9_Witness == Detected /\ ~detected_hardware["amd_npu"].available /\ env.npu.dev_xdna = "oserror" /\ env.npu.dev_npu_nodes = "present"

\* C10: detect_all always returns an inventory with one record per class, and
\* generate_report and recommend_configuration always return, whatever the probes meet.
C10_NeverAborts ==
  /\ ret.op = "detect_all" => (ret.status = "return" /\ DOMAIN ret.value = Classes)
  /\ ret.op \in {"recommend_configuration", "generate_report"} => ret.status = "return"

(***************************************************************************)
(* Properties of the NPU runtime                                           *)
(***************************************************************************)
\* the object the last call was made on, before and after the call
Before == call.before[1]
After == runtimes[call.runtime]
\* the descriptors a runtime's methods have opened and not closed
OpenedBy(r) == {d \in fdtable : d.runtime = r}
\* every input gets the refusal of a runtime without a model
NoModelBound(self) == \A inputs \in InferenceInputs : run_inference(self, inputs) = Raise("RuntimeError: Model not loaded")
\* the payload cannot be read, or the allocation is refused
LoadFails(args) == ReadModel(args.model_path).kind # "file" \/ ~args.bo.ok

\* C11: after open_device calls on a runtime, at most one descriptor opened
\* by the runtime is still open, and it is the one held in fd.
C11_NoSecondHandle ==
  ret.op = "open_device" =>
    /\ Cardinality(OpenedBy(call.runtime)) <= 1
    /\ \A d \in OpenedBy(call.runtime) : After.fd = Some(d.fd)

\* C12: close on a runtime that holds no handle (closed before, or never
\* opened) returns without error, closes nothing and leaves the runtime as it
\* was.
C12_CloseIdempotent ==
  (ret.op = "close" /\ Before.fd = None) =>
    /\ ret.status = "return"
    /\ call.syscalls = <<>>
    /\ After = Before

\* a second close in a row on a runtime that had been opened
C12_Witness ==
  /\ ret.op = "close"
  /\ call.closed_before
  /\ Before.fd = None
  /\ Before.model_loaded

\* C13: load_model on a runtime that holds no handle, and on an NPURuntime
\* that is not available, returns False, issues no control operation and
\* leaves fd, model_loaded and model_buffer as they were.
C13_LoadWithoutHandle ==
  /\ (ret.op = "load_model" /\ Before.fd = None) =>
       /\ ret.status = "return"
       /\ ret.value = FALSE
       /\ call.syscalls = <<>>
       /\ After = Before
  /\ (ret.op = "NPURuntime.load_model" /\ ~Before.available) =>
       /\ ret.status = "return"
       /\ ret.value = FALSE
       /\ call.syscalls = <<>>
       /\ npu = call.before

\* load_model of a readable model on a runtime never opened, the allocation
\* ready to succeed
C13_Witness ==
  /\ ret.op = "load_model"
  /\ Before.fd = None
  /\ ~call.closed_before
  /\ ~LoadFails(call.args)

\* C14: in every reachable state a bound model (model_loaded true or
\* model_buffer set) implies an open handle (fd not None).
C14_BufferWithinHandle ==
  \A r \in Runtimes :
    (runtimes[r].model_loaded \/ runtimes[r].model_buffer # None) => runtimes[r].fd # None

\* C15: once close has been called on a runtime, every later load_model
\* returns failure and every later run_inference raises.
C15_FailAfterClose ==
  /\ (ret.op = "load_model" /\ call.closed_before) => (ret.status = "return" /\ ret.value = FALSE)
  /\ (ret.op = "run_inference" /\ call.closed_before) => ret.status = "raise"

\* C16 as stated: when load_model on an open runtime cannot read the payload
\* or is refused the allocation, it returns False, the handle stays open and
\* no model is bound afterwards.
C16_LoadFailure_Original ==
  (ret.op = "load_model" /\ Before.fd # None /\ LoadFails(call.args)) =>
    /\ ret.status = "return"
    /\ ret.value = FALSE
    /\ After.fd = Before.fd
    /\ ~After.model_loaded
    /\ NoModelBound(After)

\* C16: when load_model on an open runtime cannot read the payload or is
\* refused the allocation, it returns False, the handle stays open and the
\* binding is as it was before the call; if no model was bound before, none
\* is bound afterwards and run_inference raises 'Model not loaded'.
C16_LoadFailure ==
  (ret.op = "load_model" /\ Before.fd # None /\ LoadFails(call.args)) =>
    /\ ret.status = "return"
    /\ ret.value = FALSE
    /\ After = Before
    /\ ~Before.model_loaded => (~After.model_loaded /\ NoModelBound(After))

\* a refused allocation for a readable model on an open runtime
C16_Witness ==
  /\ ret.op = "load_model"
  /\ Before.fd # None
  /\ ReadModel(call.args.model_path).kind = "file"
  /\ ~call.args.bo.ok
  /\ ~After.model_loaded

\* C17: run_inference raises when no model is bound, and when one is bound it
\* returns a result holding the audio tensor, whatever the inputs.
C17_WellFormedOutput ==
  /\ ret.op = "run_inference" =>
       IF Before.model_loaded THEN ret.status = "return" /\ "audio" \in DOMAIN ret.value
       ELSE ret.status = "raise"
  /\ (ret.op = "NPURuntime.run_inference" /\ Before.available) =>
       IF Before.runtime[1].model_loaded THEN ret.status = "return" /\ "audio" \in DOMAIN ret.value
       ELSE ret.status = "raise"

\* C18: a runtime that close has been called on is never open again, and a
\* runtime whose open_device has reported no device is never available again.
C18_Lifecycle ==
  \A r \in Runtimes :
    /\ r \in history.closed => ~is_available(runtimes[r])
    /\ r \in history.refused => ~is_available(runtimes[r])

\* C19: whatever the two callers do, the descriptors open at one time were
\* not opened by different callers, and no caller issues a control operation
\* on, or closes, a descriptor the other caller opened.
C19_SingleOwner ==
  /\ \A d1, d2 \in fdtable : d1.caller = d2.caller
  /\ \A i \in DOMAIN call.syscalls :
       call.syscalls[i].call \in {"ioctl", "close"} => call.syscalls[i].opener = call.caller

\* C20: with the flag set, constructing an NPURuntime makes no system call and
\* opens nothing, the NPURuntime is never available, its load_model returns
\* False and its run_inference raises 'NPU not available'.
C20_CpuOnly ==
  CPU_ONLY_MODE =>
    /\ OpenedBy(InnerRuntime) = {}
    /\ ret.op = "NPURuntime.__init__" => call.syscalls = <<>>
    /\ npu # None => (~NPURuntime_is_available(npu[1]) /\ npu[1].runtime = None)
    /\ ret.op = "NPURuntime.is_available" => ret.value = FALSE
    /\ ret.op = "NPURuntime.load_model" => (ret.status = "return" /\ ret.value = FALSE /\ call.syscalls = <<>>)
    /\ ret.op = "NPURuntime.run_inference" => (ret.status = "raise" /\ ret.exc = "RuntimeError: NPU not available")

\* run_inference on an NPURuntime constructed with the flag set, on a host
\* whose first candidate would respond
C20_Witness ==
  /\ CPU_ONLY_MODE
  /\ devnodes[device_paths[1]] = "responds"
  /\ ret.op = "NPURuntime.run_inference"


(***************************************************************************)
(* Properties of the detector, continued                                   *)
(***************************************************************************)

\* the two lines generate_report ends the report with for a recommendation
RecommendationLines(r) == s_WhisperX \o r.whisperx.backend \o s_open \o r.whisperx.reason \o s_close \o s_newline \o s_Kokoro \o r.kokoro.backend \o s_open \o r.kokoro.reason \o s_close

DetectAllReturned == ret.op = "detect_all" /\ ret.status = "return"

\* C22: within a class a later probe method never overwrites a field an earlier method
\* set: the NPU driver set by the /dev/xdna method stays "xdna", and the AMD iGPU
\* model read from the product file of the matching node stays that text.
C22_NoOverwrite ==
  DetectAllReturned =>
    /\ env.npu.dev_xdna = "present" => ret.value["amd_npu"].driver = Some(s_xdna)
    /\ (env.dri.dev_dri = "present" /\ AmdScan(env, env.dri.render_devices, UnavailableRecord("amd_igpu")).model # None) => ret.value["amd_igpu"].model = AmdScan(env, env.dri.render_devices, UnavailableRecord("amd_igpu")).model

\* every path probe of the NPU class completes: each one finds its path or finds none
NpuProbesComplete == "oserror" \notin {env.npu.dev_xdna, env.npu.dev_npu_nodes, env.npu.opt_ryzen_ai_sw}

\* C23: for every combination of the four NPU signals (driver node, NPU-class node,
\* known processor model, software directory) the record is available exactly when at
\* least one signal is found, and type and tops are set exactly when the processor
\* model matched.
C23_NpuDisjunction ==
  (DetectAllReturned /\ NpuProbesComplete) =>
    /\ ret.value["amd_npu"].available = (env.npu.dev_xdna = "present" \/ env.npu.dev_npu_nodes = "present" \/ NpuModelSignal \/ env.npu.opt_ryzen_ai_sw = "present")
    /\ (ret.value["amd_npu"].type # None) = NpuModelSignal
    /\ (ret.value["amd_npu"].tops # None) = NpuModelSignal
\* C23 witness: detection on a host whose only NPU signal is the software directory
C23_Witness == DetectAllReturned /\ env.npu = NpuHost("absent", "absent", "present") /\ ~NpuModelSignal /\ ret.value["amd_npu"].available /\ ret.value["amd_npu"].type = None

\* a render node on which vainfo raises an exception other than timeout and tool-missing
VainfoFailsOtherwise == \E d \in RenderNodeSet : env.dri.vainfo[d].exc \notin {"none", "TimeoutExpired", "FileNotFoundError"}

\* C24: a probe error in one method counts as absence for that method only and the
\* later methods of the class still run: an NPU path probe that fails does not hide a
\* signal of a later method, and a vainfo run that fails with an unexpected exception
\* does not keep the intel_gpu_frequency method from marking the Intel iGPU available.
C24_MethodErrorIsLocal ==
  DetectAllReturned =>
    /\ (env.npu.dev_xdna = "oserror" /\ (env.npu.dev_npu_nodes = "present" \/ NpuModelSignal \/ env.npu.opt_ryzen_ai_sw = "present")) => ret.value["amd_npu"].available
    /\ (env.npu.dev_npu_nodes = "oserror" /\ (NpuModelSignal \/ env.npu.opt_ryzen_ai_sw = "present")) => ret.value["amd_npu"].available
    /\ (env.dri.dev_dri = "present" /\ VainfoFailsOtherwise /\ env.dri.intel_gpu_frequency.exc = "none" /\ env.dri.intel_gpu_frequency.returncode = 0) => ret.value["intel_igpu"].available

\* the version query fails: the tool exits non-zero, times out or is missing
VersionQueryFails == env.nvidia.version.exc \in {"TimeoutExpired", "FileNotFoundError"} \/ (env.nvidia.version.exc = "none" /\ env.nvidia.version.returncode # 0)

\* C25: once the device query listed n rows, a failing version query leaves the NVIDIA
\* record available with all n devices in row order; only cuda_version stays unset.
C25_VersionFailureKeepsDevices ==
  \A n \in 1..MaxRows : (ret.op = "detect_all" /\ env.nvidia.query = Completed(0, RowsOutput(n)) /\ VersionQueryFails) =>
    /\ ret.status = "return"
    /\ ret.value["nvidia_gpu"] = [available |-> TRUE, devices |-> [i \in 1..n |-> [name |-> GpuNames[i], memory |-> GpuMemory[i]]], cuda_version |-> None, driver_version |-> None]
\* C25 witness: detection with two devices listed and the version query timing out
C25_Witness == DetectAllReturned /\ env.nvidia.query = Completed(0, RowsOutput(2)) /\ env.nvidia.version = Raises("TimeoutExpired") /\ Len(ret.value["nvidia_gpu"].devices) = 2

\* the one render node vainfo times out on, if the host has one
VainfoTimesOut(d) == d \in RenderNodeSet /\ env.dri.vainfo[d].exc = "TimeoutExpired"
\* no render node is identified as Intel by vainfo
NoVainfoIntel == \A d \in RenderNodeSet : ~(env.dri.vainfo[d].exc = "none" /\ Contains(env.dri.vainfo[d].stdout, s_Intel))

\* C26: a timeout of nvidia-smi, vainfo or intel_gpu_frequency is "no signal": the
\* timed-out method sets no field and does not mark the class available, detect_all
\* still returns, and the next method is tried (the sysfs vendor file after vainfo)
\* as is the next class (the AMD iGPU after the Intel tools).
C26_TimeoutIsNoSignal ==
  ret.op = "detect_all" =>
    /\ env.nvidia.query.exc = "TimeoutExpired" => (ret.status = "return" /\ ret.value["nvidia_gpu"] = UnavailableRecord("nvidia_gpu"))
    /\ (env.nvidia.version.exc = "TimeoutExpired" /\ \E n \in 1..MaxRows : env.nvidia.query = Completed(0, RowsOutput(n))) => (ret.status = "return" /\ ret.value["nvidia_gpu"].available /\ ret.value["nvidia_gpu"].cuda_version = None)
    /\ ((env.dri.intel_gpu_frequency.exc = "TimeoutExpired" \/ \E d \in RenderNodeSet : VainfoTimesOut(d)) /\ env.nvidia = NvidiaAbsent) => ret.status = "return"
    /\ ret.status = "return" =>
         /\ \A d \in RenderNodeSet : (VainfoTimesOut(d) /\ NoVainfoIntel /\ env.dri.vendor[CardOf(d)] = FileWith(f_vendor_intel)) => ret.value["intel_igpu"] = [available |-> TRUE, device |-> Some(d), driver |-> None, compute_units |-> None]
         /\ ((env.dri.intel_gpu_frequency.exc = "TimeoutExpired" \/ \E d \in RenderNodeSet : VainfoTimesOut(d)) /\ IntelNoSignal) => ret.value["intel_igpu"] = UnavailableRecord("intel_igpu")
         /\ ((env.dri.intel_gpu_frequency.exc = "TimeoutExpired" \/ \E d \in RenderNodeSet : VainfoTimesOut(d)) /\ ~AmdNoSignal) => ret.value["amd_igpu"].available
\* C26 witness: detection where vainfo timed out on the node the vendor file names Intel
C26_Witness == DetectAllReturned /\ (\E d \in RenderNodeSet : VainfoTimesOut(d) /\ env.dri.vendor[CardOf(d)] = FileWith(f_vendor_intel)) /\ env.dri.intel_gpu_frequency.exc = "TimeoutExpired" /\ ret.value["intel_igpu"].available /\ ret.value["intel_igpu"].driver = None

\* C28: detect_all is repeatable: run twice in a row on the same host, the second run
\* returns the inventory the first returned; the AMD iGPU model does not depend on the
\* CPU record the first run left.
C28_DetectRepeatable == (DetectAllReturned /\ prev.op = "detect_all" /\ prev.status = "return") => ret.value = prev.value

\* arbitration reaches the cuda branch: NVIDIA available, no NPU, no Intel iGPU
CudaBranch == GetAvailable(detected_hardware, "nvidia_gpu") /\ ~GetAvailable(detected_hardware, "amd_npu") /\ ~GetAvailable(detected_hardware, "intel_igpu")

\* C29: every NVIDIA record detect_all returns with available = true has at least one
\* device, so the cuda branch of recommend_configuration reads the first device's name
\* and returns a reason that carries it.
C29_DevicesNonEmpty ==
  /\ DetectAllReturned => (ret.value["nvidia_gpu"].available => Len(ret.value["nvidia_gpu"].devices) >= 1)
  /\ Detected => (detected_hardware["nvidia_gpu"].available => Len(detected_hardware["nvidia_gpu"].devices) >= 1)
  /\ (Recommended /\ Detected /\ CudaBranch) => (ret.status = "return" /\ ret.value["whisperx"].backend = s_cuda /\ Contains(ret.value["whisperx"].reason, detected_hardware["nvidia_gpu"].devices[1].name))
\* C29 witness: the cuda branch has run on a detected inventory and named the first of two devices
C29_Witness == Recommended /\ Detected /\ CudaBranch /\ Len(detected_hardware["nvidia_gpu"].devices) = 2 /\ ret.status = "return" /\ Contains(ret.value["whisperx"].reason, GpuNames[1])

(***************************************************************************)
(* Properties of the NPU runtime, continued                                *)
(***************************************************************************)

\* the candidates that exist and answer the capability query on this host
RespondingCandidates == {i \in 1..Len(device_paths) : devnodes[device_paths[i]] = "responds"}
\* the positions in the system-call log of the last call where `kind` was called
CallsOf(kind) == {k \in 1..Len(call.syscalls) : call.syscalls[k].call = kind}
\* the position of the n-th existence probe of the last call
ProbeAt(n) == CHOOSE k \in CallsOf("exists") : Cardinality({j \in CallsOf("exists") : j <= k}) = n

\* C27: open_device on a runtime without a handle probes the candidates in the listed
\* order; it opens each path that exists and asks it for its capabilities; a candidate
\* that opened and did not answer is closed before the next one is probed; a True
\* return holds exactly the first candidate that answers, and nothing later is probed;
\* a False return leaves fd None and every descriptor the call opened closed again.
C27_OpenDeviceOrder ==
  (ret.op = "open_device" /\ Before.fd = None) =>
    /\ \A n \in 1..Cardinality(CallsOf("exists")) : call.syscalls[ProbeAt(n)].path = device_paths[n]
    /\ \A k \in CallsOf("exists") :
         IF call.syscalls[k].ok
         THEN k < Len(call.syscalls) /\ call.syscalls[k + 1].call = "open" /\ call.syscalls[k + 1].path = call.syscalls[k].path /\ devnodes[call.syscalls[k].path] # "absent"
         ELSE devnodes[call.syscalls[k].path] = "absent" /\ (k < Len(call.syscalls) => call.syscalls[k + 1].call = "exists")
    /\ \A k \in CallsOf("open") :
         IF call.syscalls[k].ok
         THEN k < Len(call.syscalls) /\ call.syscalls[k + 1].call = "ioctl" /\ call.syscalls[k + 1].fd = call.syscalls[k].fd /\ call.syscalls[k + 1].cmd = DRM_IOCTL_AMDXDNA_GET_INFO
         ELSE k < Len(call.syscalls) => call.syscalls[k + 1].call = "exists"
    /\ \A k \in CallsOf("ioctl") :
         IF call.syscalls[k].ok
         THEN k = Len(call.syscalls)
         ELSE k < Len(call.syscalls) /\ call.syscalls[k + 1].call = "close" /\ call.syscalls[k + 1].fd = call.syscalls[k].fd
    /\ \A k \in CallsOf("close") : k < Len(call.syscalls) => call.syscalls[k + 1].call = "exists"
    /\ IF ret.value
       THEN /\ RespondingCandidates # {}
            /\ \E d \in fdtable : After.fd = Some(d.fd) /\ d.runtime = call.runtime /\ d.path = device_paths[CHOOSE i \in RespondingCandidates : \A j \in RespondingCandidates : i <= j]
            /\ call.syscalls[Len(call.syscalls)] = SysIoctl(After.fd[1], DRM_IOCTL_AMDXDNA_GET_INFO, TRUE, call.caller)
       ELSE /\ After.fd = None
            /\ Cardinality(CallsOf("exists")) = Len(device_paths)
            /\ \A d \in fdtable : \A k \in CallsOf("open") : ~(call.syscalls[k].ok /\ call.syscalls[k].fd = d.fd /\ d.path = call.syscalls[k].path /\ d.runtime = call.runtime /\ d.caller = call.caller /\ \A j \in CallsOf("close") : call.syscalls[j].fd # d.fd)
            /\ Cardinality({k \in CallsOf("open") : call.syscalls[k].ok}) = Cardinality(CallsOf("close"))
\* C27 witness: the first candidate opened and gave no answer, was closed, and the
\* second candidate answered and is the one held
C27_Witness == ret.op = "open_device" /\ Before.fd = None /\ ret.value /\ devnodes[device_paths[1]] = "ioctl_raises" /\ (\E d \in fdtable : After.fd = Some(d.fd) /\ d.path = device_paths[2]) /\ Len(call.syscalls) = 7
\* C27 second witness: both existing candidates fail and the call returns False
C27_WitnessNone == ret.op = "open_device" /\ Before.fd = None /\ ~ret.value /\ devnodes[device_paths[1]] = "ioctl_raises" /\ devnodes[device_paths[2]] = "open_raises" /\ After.fd = None

\* C30: after any sequence of open_device and close calls, is_available() right after
\* an open_device call equals what the call returned: True only with a live handle, and
\* a False return leaves the runtime without a handle.
C30_AvailableIffOpened == ret.op = "open_device" => (is_available(After) = ret.value /\ (ret.value => \E d \in fdtable : After.fd = Some(d.fd)))

====
